---- MODULE Spec2Model ----
(***************************************************************************)
(* A model of the French sports licences dashboard: the loader             *)
(* (utils/io.py), the preparation step (utils/prep.py), the script run of  *)
(* app.py (load, prepare, sidebar, filtering logic, empty check, builders) *)
(* and the four builders of utils/viz.py.                                  *)
(*                                                                         *)
(* A DataFrame is a record [columns, index, rows]: the ordered column      *)
(* labels, the index labels of the rows, and the rows, each a function     *)
(* from column label to cell.  A column label is the sequence of the       *)
(* tokens of its name, so that "' - ' in col" and "col.startswith('F - ')" *)
(* are computed on the label: "F - 1 à 4 ans" is <<"F", " - ", "1 à 4     *)
(* ans">>.  A raw count cell is [kind, val]; a cleaned count cell is an    *)
(* integer; a text cell is a string and NA is the missing text cell.       *)
(***************************************************************************)
EXTENDS Integers, Sequences, FiniteSets, TLC

VARIABLES
    pc,           \* position of the script run of app.py
    raw_df,       \* load_data()'s result
    geojson,      \* load_geojson()'s result ("geojson" or "None")
    df_main,      \* the cleaned table
    session,      \* st.session_state: [f_cols, h_cols]
    sel,          \* the sidebar's selection: [feds, regions, gender]
    df_filtered,  \* the filtered table
    out,          \* what the builders returned: [kpi, map, pyramid, lic, imp]
    shown         \* the st.error / st.warning messages displayed

vars == <<pc, raw_df, geojson, df_main, session, sel, df_filtered, out, shown>>

---------------------------------------------------------------------------
\* Bounds of the model.

\* Most rows a raw table holds.
MaxRows == 2

\* Most federations of a ranking input (more than the 15 the ranking keeps).
MaxFeds == 17

---------------------------------------------------------------------------
\* Column labels.

FED == <<"Fédération">>
REG == <<"Région">>
DEP == <<"Département">>
COM == <<"Code Commune">>
TOTAL_RAW == <<"Total">>
TOTAL == <<"Total_Licences">>
FEMALE == <<"Female_Licences">>
MALE == <<"Male_Licences">>
F_1_4 == <<"F", " - ", "1 à 4 ans">>
F_5_9 == <<"F", " - ", "5 à 9 ans">>
H_1_4 == <<"H", " - ", "1 à 4 ans">>

\* The missing value of a text column (NaN in an object column).
NA == "NaN"

\* The federation, region and department labels of the model, each in the
\* lexicographic order sorted() and groupby() put them in.
FedNames ==
    << "Athlétisme", "Aviron", "Badminton", "Basketball", "Boxe", "Canoë",
       "Cyclisme", "Escrime", "Football", "Golf", "Gymnastique", "Handball",
       "Judo", "Karaté", "Natation", "Rugby", "Ski", "Tennis", "Voile",
       "Volley" >>
RegNames == << "Bretagne", "Occitanie" >>
DepNames == << "01", "2A" >>

Range(s) == { s[i] : i \in 1..Len(s) }

RECURSIVE SumSeq(_)
SumSeq(s) == IF s = <<>> THEN 0 ELSE Head(s) + SumSeq(Tail(s))

\* The labels of `present`, in the order of `names` (sorted order).
Sorted(names, present) == SelectSeq(names, LAMBDA n : n \in present)

---------------------------------------------------------------------------
\* DataFrames.

\* pd.DataFrame(): no column, no row.
EmptyFrame == [columns |-> <<>>, index |-> <<>>, rows |-> <<>>]

\* df.empty: some axis has length 0.
IsEmpty(df) == Len(df.columns) = 0 \/ Len(df.rows) = 0

\* df[col] as the sequence of its cells.
Column(df, col) == [i \in 1..Len(df.rows) |-> df.rows[i][col]]

\* df[mask]: the rows where mask holds, as a new table keeping their index
\* labels and their order.
RECURSIVE Positions(_, _, _)
Positions(mask, i, n) ==
    IF i > n THEN <<>>
    ELSE IF mask[i] THEN <<i>> \o Positions(mask, i + 1, n)
    ELSE Positions(mask, i + 1, n)

Take(df, mask) ==
    LET keep == Positions(mask, 1, Len(df.rows))
    IN  [columns |-> df.columns,
         index |-> [k \in 1..Len(keep) |-> df.index[keep[k]]],
         rows |-> [k \in 1..Len(keep) |-> df.rows[keep[k]]]]

\* df[col] = values: the column is overwritten, or appended when new.
SetColumn(df, col, values) ==
    [columns |-> IF col \in Range(df.columns) THEN df.columns
                 ELSE Append(df.columns, col),
     index |-> df.index,
     rows |-> [i \in 1..Len(df.rows) |->
                 [c \in Range(df.columns) \cup {col} |->
                     IF c = col THEN values[i] ELSE df.rows[i][c]]]]

\* df[col] = scalar.
SetScalar(df, col, v) == SetColumn(df, col, [i \in 1..Len(df.rows) |-> v])

---------------------------------------------------------------------------
\* utils/io.py

\* load_data() returns what read_csv parsed, or pd.DataFrame() when the
\* fetch or the parse raised (after st.error).
LoadFailure == EmptyFrame

---------------------------------------------------------------------------
\* utils/prep.py

\* "' - ' in col"
IsAgeCol(col) == \E i \in 1..Len(col) : col[i] = " - "

\* "col.startswith('F - ')", "col.startswith('H - ')"
IsFemaleCol(col) == Len(col) >= 2 /\ col[1] = "F" /\ col[2] = " - "
IsMaleCol(col) == Len(col) >= 2 /\ col[1] = "H" /\ col[2] = " - "

NaNCell == [kind |-> "nan", val |-> 0]

\* pd.to_numeric(cell, errors='coerce'): a number stays, numeric text is
\* parsed ("inf" parses to the float infinity), any other text and a missing
\* cell are NaN.  A float's val counts halves (val 5 is 2.5).
ToNumeric(cell) ==
    CASE cell.kind = "int" -> cell
      [] cell.kind = "float" -> cell
      [] cell.kind = "numstr" -> [kind |-> "int", val |-> cell.val]
      [] cell.kind = "inf" -> cell
      [] cell.kind = "text" -> NaNCell
      [] OTHER -> NaNCell

\* .fillna(0)
FillNa(cell) == IF cell.kind = "nan" THEN [kind |-> "float", val |-> 0] ELSE cell

\* .astype(int) raises on a non-finite value
CanCastInt(cell) == cell.kind # "inf" /\ cell.kind # "nan"

\* .astype(int) of a finite value: a float is truncated toward zero.
AsTypeInt(cell) ==
    IF cell.kind = "int" THEN cell.val
    ELSE IF cell.val >= 0 THEN cell.val \div 2 ELSE -((-cell.val) \div 2)

\* df.rename(columns={"Total": "Total_Licences"})
RenameLabel(c) == IF c = TOTAL_RAW THEN TOTAL ELSE c

RenameTotal(df) ==
    [columns |-> [k \in 1..Len(df.columns) |-> RenameLabel(df.columns[k])],
     index |-> df.index,
     rows |-> [i \in 1..Len(df.rows) |->
                 [c \in { RenameLabel(x) : x \in Range(df.columns) } |->
                     IF c = TOTAL /\ TOTAL_RAW \in Range(df.columns)
                     THEN df.rows[i][TOTAL_RAW] ELSE df.rows[i][c]]]]

\* age_cols, f_cols, h_cols of a renamed table
AgeCols(df) == SelectSeq(df.columns, IsAgeCol)
FCols(df) == SelectSeq(AgeCols(df), IsFemaleCol)
HCols(df) == SelectSeq(AgeCols(df), IsMaleCol)
NumericCols(df) == Range(AgeCols(df)) \cup {TOTAL}

\* df[cols].sum(axis=1) for one row
RowSum(row, cols) == SumSeq([k \in 1..Len(cols) |-> row[cols[k]]])

\* The body of clean_and_prep_data after the empty check: what it returns,
\* or that it raised.
CleanNonEmpty(df_raw) ==
    LET df == RenameTotal(df_raw)
        num == NumericCols(df)
        coerced == [i \in 1..Len(df.rows) |->
                      [c \in Range(df.columns) |->
                          IF c \in num THEN FillNa(ToNumeric(df.rows[i][c]))
                          ELSE df.rows[i][c]]]
        castable == \A i \in 1..Len(df.rows) : \A c \in num :
                        CanCastInt(coerced[i][c])
        ints == [columns |-> df.columns,
                 index |-> df.index,
                 rows |-> [i \in 1..Len(df.rows) |->
                             [c \in Range(df.columns) |->
                                 IF c \in num THEN AsTypeInt(coerced[i][c])
                                 ELSE coerced[i][c]]]]
        f_cols == FCols(df)
        h_cols == HCols(df)
        withF == SetColumn(ints, FEMALE,
                     [i \in 1..Len(ints.rows) |-> RowSum(ints.rows[i], f_cols)])
        withH == SetColumn(withF, MALE,
                     [i \in 1..Len(ints.rows) |-> RowSum(ints.rows[i], h_cols)])
    IN  IF castable
        THEN [kind |-> "tuple", df |-> withH, f_cols |-> f_cols, h_cols |-> h_cols]
        ELSE [kind |-> "raise", df |-> EmptyFrame, f_cols |-> <<>>, h_cols |-> <<>>]

\* What clean_and_prep_data returns on an empty table: the bare
\* pd.DataFrame(), not a 3-tuple.
EmptyReturn == [kind |-> "frame", df |-> EmptyFrame, f_cols |-> <<>>, h_cols |-> <<>>]

\* clean_and_prep_data(df_raw): kind "tuple" is the 3-tuple
\* (df, f_cols, h_cols), kind "frame" a bare DataFrame, kind "raise" an
\* exception out of astype(int).
clean_and_prep_data(df_raw) ==
    IF IsEmpty(df_raw) THEN EmptyReturn ELSE CleanNonEmpty(df_raw)

\* "df_main, f_cols, h_cols = ...": a tuple of three unpacks; a DataFrame
\* iterates over its column labels, so it unpacks only with three columns.
CanUnpack3(ret) ==
    \/ ret.kind = "tuple"
    \/ ret.kind = "frame" /\ Len(ret.df.columns) = 3

---------------------------------------------------------------------------
\* app.py, section 4: the filtering logic.
\*
\* The script writes columns into df_filtered in place.  Whether such a write
\* reaches df_main depends on whether df_filtered is still the object df_main
\* names: a table object is [own, df], own = TRUE for an object of its own
\* and FALSE for the object df_main names.

\* a mutation: "df_filtered = df_main" (no copy)
NoCopy(df) == [own |-> FALSE, df |-> df]

\* df_main.copy()
CopyTable(df) == [own |-> TRUE, df |-> df]

\* df[col].isin(values)
IsIn(df, col, values) == [i \in 1..Len(df.rows) |-> df.rows[i][col] \in values]

\* "if selected_feds: df_filtered = df_filtered[...isin(selected_feds)]"
RestrictFeds(obj, main, feds) ==
    IF feds = {} THEN obj
    ELSE [own |-> TRUE, df |-> Take(obj.df, IsIn(obj.df, FED, feds))]

\* a mutation: the region filter indexes df_main, dropping the federation filter
RestrictRegionsOfMain(obj, main, regions) ==
    IF regions = {} THEN obj
    ELSE [own |-> TRUE, df |-> Take(main, IsIn(main, REG, regions))]

\* "if selected_regions: df_filtered = df_filtered[...isin(selected_regions)]"
RestrictRegions(obj, main, regions) ==
    IF regions = {} THEN obj
    ELSE [own |-> TRUE, df |-> Take(obj.df, IsIn(obj.df, REG, regions))]

\* "for col in cols: if col in df_filtered.columns: df_filtered[col] = 0"
RECURSIVE ZeroColumns(_, _)
ZeroColumns(df, cols) ==
    IF cols = <<>> THEN df
    ELSE ZeroColumns(
             IF Head(cols) \in Range(df.columns) THEN SetScalar(df, Head(cols), 0)
             ELSE df,
             Tail(cols))

\* a mutation: the bracket columns are left as they are
GenderMaleKeepsBrackets(df, f_cols) ==
    SetScalar(SetColumn(df, TOTAL, Column(df, MALE)), FEMALE, 0)

\* the branch selected_gender == "Male"
GenderMale(df, f_cols) ==
    ZeroColumns(
        SetScalar(SetColumn(df, TOTAL, Column(df, MALE)), FEMALE, 0),
        f_cols)

\* a mutation: the Female branch zeroes the aggregate it has just read
GenderFemaleZeroesFemale(df, h_cols) ==
    ZeroColumns(
        SetScalar(SetColumn(df, TOTAL, Column(df, FEMALE)), FEMALE, 0),
        h_cols)

\* the branch selected_gender == "Female"
GenderFemale(df, h_cols) ==
    ZeroColumns(
        SetScalar(SetColumn(df, TOTAL, Column(df, FEMALE)), MALE, 0),
        h_cols)

GenderOverwrite(df, ss, gender) ==
    CASE gender = "Male" -> GenderMale(df, ss.f_cols)
      [] gender = "Female" -> GenderFemale(df, ss.h_cols)
      [] OTHER -> df

\* Section 4 as a whole: the filtered table, and df_main after the run.
FilterEngine(main, ss, s) ==
    LET copied == CopyTable(main)
        byFed == RestrictFeds(copied, main, s.feds)
        byReg == RestrictRegions(byFed, main, s.regions)
        written == GenderOverwrite(byReg.df, ss, s.gender)
    IN  [filtered |-> written,
         main |-> IF byReg.own THEN main ELSE written]

---------------------------------------------------------------------------
\* utils/viz.py

\* A series is a sequence of [key, value] entries.

\* The first position holding the largest (smallest) value.
FirstMax(s) ==
    CHOOSE i \in 1..Len(s) :
        /\ \A j \in 1..Len(s) : s[j].value <= s[i].value
        /\ \A j \in 1..(i - 1) : s[j].value < s[i].value

FirstMin(s) ==
    CHOOSE i \in 1..Len(s) :
        /\ \A j \in 1..Len(s) : s[j].value >= s[i].value
        /\ \A j \in 1..(i - 1) : s[j].value > s[i].value

Without(s, i) == SubSeq(s, 1, i - 1) \o SubSeq(s, i + 1, Len(s))

\* a mutation: .head(n), the first n entries as they come
Head_n(s, n) == SubSeq(s, 1, IF Len(s) < n THEN Len(s) ELSE n)

\* Series.nlargest(n) (keep='first'): the n largest, largest first, ties in
\* their order of appearance.
RECURSIVE nlargest(_, _)
nlargest(s, n) ==
    IF n = 0 \/ s = <<>> THEN <<>>
    ELSE LET i == FirstMax(s)
         IN  <<s[i]>> \o nlargest(Without(s, i), n - 1)

\* .sort_values(ascending=True); on the 15 entries at most it is given here
\* the sort keeps ties in their order.
RECURSIVE sort_values(_)
sort_values(s) ==
    IF s = <<>> THEN <<>>
    ELSE LET i == FirstMin(s)
         IN  <<s[i]>> \o sort_values(Without(s, i))

\* The distinct non-missing labels of a column, in order of first appearance.
RECURSIVE Uniques(_)
Uniques(s) ==
    IF s = <<>> THEN <<>>
    ELSE LET rest == Uniques(SubSeq(s, 1, Len(s) - 1))
             last == s[Len(s)]
         IN  IF last = NA \/ last \in Range(rest) THEN rest ELSE Append(rest, last)

\* The rows of df whose `col` is `key`.
RowsOf(df, col, key) == SelectSeq(df.rows, LAMBDA r : r[col] = key)

\* df.groupby(col)[val].sum(): one entry per label present (a missing label
\* forms no group), in sorted order.
GroupSum(df, col, val, names) ==
    LET keys == Sorted(names, Range(Column(df, col)) \ {NA})
    IN  [k \in 1..Len(keys) |->
            [key |-> keys[k],
             value |-> SumSeq([i \in 1..Len(RowsOf(df, col, keys[k])) |->
                                 RowsOf(df, col, keys[k])[i][val]])]]

\* df.groupby(col)[val].count(): the group's rows whose `val` is not missing.
GroupCount(df, col, val, key) ==
    Len(SelectSeq(RowsOf(df, col, key), LAMBDA r : r[val] # NA))

\* df[col].value_counts(): rows per label, most frequent first.
value_counts(df, col) ==
    LET keys == Uniques(Column(df, col))
        counts == [k \in 1..Len(keys) |->
                     [key |-> keys[k], value |-> Len(RowsOf(df, col, keys[k]))]]
    IN  nlargest(counts, Len(counts))

\* The number of federations a ranking keeps.
TopN == 15

\* plot_kpi_metrics: the three figures it displays; the average is the
\* fraction num/den.
plot_kpi_metrics(df) ==
    LET total_licences == SumSeq(Column(df, TOTAL))
        total_associations == Len(df.rows)
    IN  [kind |-> "metrics",
         total |-> total_licences,
         associations |-> total_associations,
         average |-> IF total_associations > 0
                     THEN [num |-> total_licences, den |-> total_associations]
                     ELSE [num |-> 0, den |-> 1]]

\* plot_choropleth_map: df_dept, handed to px.choropleth_mapbox whatever its
\* length; the figure carries the builder's title.
plot_choropleth_map(df, geo) ==
    LET sums == GroupSum(df, DEP, TOTAL, DepNames)
        df_dept == [k \in 1..Len(sums) |->
                      [departement |-> sums[k].key,
                       Total_Licences |-> sums[k].value,
                       Nb_Associations |-> GroupCount(df, DEP, COM, sums[k].key)]]
    IN  [kind |-> "chart", title |-> "Where are the athletes?", data |-> df_dept]

\* .str.replace(prefix + ' - ', '') on a column label
RECURSIVE StrReplace(_, _)
StrReplace(col, prefix) ==
    IF Len(col) < 2 THEN col
    ELSE IF col[1] = prefix /\ col[2] = " - "
         THEN StrReplace(SubSeq(col, 3, Len(col)), prefix)
         ELSE <<col[1]>> \o StrReplace(Tail(col), prefix)

Placeholder(title) == [kind |-> "placeholder", title |-> title, data |-> <<>>]

\* a mutation: the male series keeps its sign
MaleSeriesNotNegated(data_agg, h_cols) ==
    [k \in 1..Len(h_cols) |->
        [Tranche |-> StrReplace(h_cols[k], "H"),
         Licences |-> data_agg[h_cols[k]],
         Sexe |-> "Male",
         Abs_Licences |-> data_agg[h_cols[k]]]]

\* data_h of plot_age_pyramid
MaleSeries(data_agg, h_cols) ==
    [k \in 1..Len(h_cols) |->
        [Tranche |-> StrReplace(h_cols[k], "H"),
         Licences |-> -data_agg[h_cols[k]],
         Sexe |-> "Male",
         Abs_Licences |-> data_agg[h_cols[k]]]]

\* data_f of plot_age_pyramid
FemaleSeries(data_agg, f_cols) ==
    [k \in 1..Len(f_cols) |->
        [Tranche |-> StrReplace(f_cols[k], "F"),
         Licences |-> data_agg[f_cols[k]],
         Sexe |-> "Female",
         Abs_Licences |-> data_agg[f_cols[k]]]]

MaxOf(S) == CHOOSE m \in S : \A x \in S : x <= m

\* plot_age_pyramid; max_val counts tenths (max * 1.1, or the default 100).
plot_age_pyramid(df, ss) ==
    IF ss.f_cols = <<>> \/ ss.h_cols = <<>>
    THEN Placeholder("Age pyramid data not available.")
    ELSE IF IsEmpty(df)
    THEN Placeholder("No data for this selection.")
    ELSE LET cols == ss.f_cols \o ss.h_cols
             data_agg == [c \in Range(cols) |-> SumSeq(Column(df, c))]
             data_pyramide == FemaleSeries(data_agg, ss.f_cols)
                              \o MaleSeries(data_agg, ss.h_cols)
             top == MaxOf({ data_pyramide[k].Abs_Licences :
                              k \in 1..Len(data_pyramide) })
         IN  [kind |-> "chart",
              title |-> "Who are the athletes? (Age & Gender Pyramid)",
              data |-> data_pyramide,
              max_val |-> IF top * 11 = 0 THEN 1000 ELSE top * 11]

\* plot_top_federations(df, by): df_agg
plot_top_federations(df, by) ==
    IF by = "licences"
    THEN [kind |-> "chart", title |-> "Top 15 Federations by Licences",
          data |-> sort_values(nlargest(GroupSum(df, FED, TOTAL, FedNames), TopN))]
    ELSE [kind |-> "chart", title |-> "Top 15 Federations by Implantation",
          data |-> sort_values(nlargest(value_counts(df, FED), TopN))]

---------------------------------------------------------------------------
\* The inputs of the model.

IntCell(n) == [kind |-> "int", val |-> n]
TextCell == [kind |-> "text", val |-> 0]

\* The columns of a raw table: with two female brackets and one male bracket,
\* with one bracket of each, and with no male bracket at all.
SchemaFFH == <<FED, REG, DEP, COM, TOTAL_RAW, F_1_4, F_5_9, H_1_4>>
SchemaFH == <<FED, REG, DEP, COM, TOTAL_RAW, F_1_4, H_1_4>>
SchemaF == <<FED, REG, DEP, COM, TOTAL_RAW, F_1_4>>

\* One raw row over `schema`.
RawRow(schema, fe, re, de, co, t, f, h) ==
    [c \in Range(schema) |->
        CASE c = FED -> fe
          [] c = REG -> re
          [] c = DEP -> de
          [] c = COM -> co
          [] c = TOTAL_RAW -> t
          [] c = F_1_4 -> f
          [] c = F_5_9 -> IntCell(1)
          [] OTHER -> h]

\* A table as read_csv builds it: a RangeIndex 0..n-1 over the rows.
Frame(schema, rows) ==
    [columns |-> schema,
     index |-> [i \in 1..Len(rows) |-> i - 1],
     rows |-> rows]

\* The tables of at most MaxRows rows drawn from `rowset`.
Tables(schema, rowset) ==
    { Frame(schema, rows) : rows \in UNION { [1..n -> rowset] : n \in 0..MaxRows } }

\* The raw tables of the script run: federation, region and the first
\* female bracket vary (a count, or text that is no number).
AppRows ==
    { RawRow(SchemaFFH, fe, re, "01", "01001", IntCell(5), f, IntCell(2)) :
        fe \in {"Football", "Tennis"}, re \in {"Bretagne", "Occitanie"},
        f \in {IntCell(1), TextCell} }
AppTables == Tables(SchemaFFH, AppRows)

\* The raw cells of the preparation runs: missing, text, counts of either
\* sign, numeric text, floats of either sign (in halves), infinity.
PrepCells ==
    { NaNCell, TextCell, IntCell(-1), IntCell(0), IntCell(2),
      [kind |-> "numstr", val |-> 3], [kind |-> "float", val |-> 5],
      [kind |-> "float", val |-> -3], [kind |-> "inf", val |-> 0] }
PrepRows ==
    { RawRow(SchemaFH, "Football", "Bretagne", "01", "01001", t, f, IntCell(1)) :
        t \in PrepCells, f \in PrepCells }
PrepTables == Tables(SchemaFH, PrepRows)

\* The raw tables behind the builders' inputs: federation, department, the
\* commune code (present or missing) and the male bracket vary.
BuilderRows(schema) ==
    { RawRow(schema, fe, "Bretagne", de, co, IntCell(5), IntCell(1), h) :
        fe \in {"Football", "Tennis"}, de \in {"01", "2A"},
        co \in {"01001", NA}, h \in {IntCell(2), IntCell(0)} }
BuilderTables ==
    Tables(SchemaFH, BuilderRows(SchemaFH))
    \cup Tables(SchemaF,
                { RawRow(SchemaF, fe, "Bretagne", "01", "01001", IntCell(5),
                         IntCell(1), IntCell(0)) : fe \in {"Football", "Tennis"} })

\* The raw tables behind the rankings' inputs: one row for each of the first
\* n federations, its total (i * a + b) % 7, one more row for federation j
\* (none when j = 0), the rows in either order.
RankingRow(i, t) ==
    RawRow(SchemaFH, FedNames[i], "Bretagne", "01", "01001", IntCell(t),
           IntCell(0), IntCell(t))

Reverse(s) == [i \in 1..Len(s) |-> s[Len(s) + 1 - i]]

RankingTable(n, a, b, j, rev) ==
    LET base == [i \in 1..n |-> RankingRow(i, (i * a + b) % 7)]
        rows == IF j = 0 THEN base ELSE Append(base, RankingRow(j, 1))
    IN  Frame(SchemaFH, IF rev THEN Reverse(rows) ELSE rows)

Genders == {"All", "Male", "Female"}

NoSelection == [feds |-> {}, regions |-> {}, gender |-> "All"]
NoSession == [f_cols |-> <<>>, h_cols |-> <<>>]
Unset == [kind |-> "unset"]
NoOutput == [kpi |-> Unset, map |-> Unset, pyramid |-> Unset, lic |-> Unset, imp |-> Unset]

---------------------------------------------------------------------------
\* The script run of app.py.

FailedToLoad == "Failed to load critical data. The app cannot continue."
NoDataMatches == "No data matches your selection. Please adjust the filters."

Init ==
    /\ pc = "load"
    /\ raw_df = EmptyFrame
    /\ geojson = "None"
    /\ df_main = EmptyFrame
    /\ session = NoSession
    /\ sel = NoSelection
    /\ df_filtered = EmptyFrame
    /\ out = NoOutput
    /\ shown = {}

\* raw_df = load_data(); geojson = load_geojson(): each returns what it
\* fetched, or reports the failure and returns its empty value.
LoadData(tables) ==
    /\ pc = "load"
    /\ \E t \in tables \cup {LoadFailure}, g \in {"geojson", "None"} :
        /\ raw_df' = t
        /\ geojson' = g
        /\ shown' = (IF t = LoadFailure THEN {"Error loading data"} ELSE {})
                    \cup (IF g = "None" THEN {"Error loading GeoJSON map"} ELSE {})
    /\ pc' = "prep"
    /\ UNCHANGED <<df_main, session, sel, df_filtered, out>>

LoadApp == LoadData(AppTables)
LoadRaw == LoadData(PrepTables)

\* df_main, f_cols, h_cols = clean_and_prep_data(raw_df), then the two
\* session_state writes.  An exception out of the call or out of the
\* unpacking ends the run.
PrepareData ==
    /\ pc = "prep"
    /\ LET ret == clean_and_prep_data(raw_df)
       IN  IF ret.kind = "raise"
           THEN /\ pc' = "crashed"
                /\ shown' = shown \cup {"IntCastingNaNError"}
                /\ UNCHANGED <<df_main, session>>
           ELSE IF ~CanUnpack3(ret)
           THEN /\ pc' = "crashed"
                /\ shown' = shown \cup {"ValueError"}
                /\ UNCHANGED <<df_main, session>>
           ELSE /\ pc' = "check"
                /\ df_main' = ret.df
                /\ session' = [f_cols |-> ret.f_cols, h_cols |-> ret.h_cols]
                /\ UNCHANGED shown
    /\ UNCHANGED <<raw_df, geojson, sel, df_filtered, out>>

\* "if df_main.empty or geojson is None: st.error(...); st.stop()"
CheckCritical ==
    /\ pc = "check"
    /\ IF IsEmpty(df_main) \/ geojson = "None"
       THEN pc' = "halted" /\ shown' = shown \cup {FailedToLoad}
       ELSE pc' = "sidebar" /\ UNCHANGED shown
    /\ UNCHANGED <<raw_df, geojson, df_main, session, sel, df_filtered, out>>

\* The sidebar's widgets: the options are the labels of df_main.
Sidebar ==
    /\ pc = "sidebar"
    /\ \E feds \in SUBSET Range(Column(df_main, FED)),
          regions \in SUBSET Range(Column(df_main, REG)),
          gender \in Genders :
        sel' = [feds |-> feds, regions |-> regions, gender |-> gender]
    /\ pc' = "filter"
    /\ UNCHANGED <<raw_df, geojson, df_main, session, df_filtered, out, shown>>

\* Section 4.
FilteringLogic ==
    /\ pc = "filter"
    /\ LET r == FilterEngine(df_main, session, sel)
       IN  df_filtered' = r.filtered /\ df_main' = r.main
    /\ pc' = "layout"
    /\ UNCHANGED <<raw_df, geojson, session, sel, out, shown>>

\* "if df_filtered.empty: st.warning(...); st.stop()"
EmptyCheck ==
    /\ pc = "layout"
    /\ IF IsEmpty(df_filtered)
       THEN pc' = "stopped" /\ shown' = shown \cup {NoDataMatches}
       ELSE pc' = "kpi" /\ UNCHANGED shown
    /\ UNCHANGED <<raw_df, geojson, df_main, session, sel, df_filtered, out>>

Kpi ==
    /\ pc = "kpi"
    /\ out' = [out EXCEPT !.kpi = plot_kpi_metrics(df_filtered)]
    /\ pc' = "map"
    /\ UNCHANGED <<raw_df, geojson, df_main, session, sel, df_filtered, shown>>

Map ==
    /\ pc = "map"
    /\ out' = [out EXCEPT !.map = plot_choropleth_map(df_filtered, geojson)]
    /\ pc' = "pyramid"
    /\ UNCHANGED <<raw_df, geojson, df_main, session, sel, df_filtered, shown>>

Pyramid ==
    /\ pc = "pyramid"
    /\ out' = [out EXCEPT !.pyramid = plot_age_pyramid(df_filtered, session)]
    /\ pc' = "top_lic"
    /\ UNCHANGED <<raw_df, geojson, df_main, session, sel, df_filtered, shown>>

TopLic ==
    /\ pc = "top_lic"
    /\ out' = [out EXCEPT !.lic = plot_top_federations(df_filtered, "licences")]
    /\ pc' = "top_imp"
    /\ UNCHANGED <<raw_df, geojson, df_main, session, sel, df_filtered, shown>>

TopImp ==
    /\ pc = "top_imp"
    /\ out' = [out EXCEPT !.imp = plot_top_federations(df_filtered, "implantation")]
    /\ pc' = "done"
    /\ UNCHANGED <<raw_df, geojson, df_main, session, sel, df_filtered, shown>>

\* A widget changes and the script runs again: the cached load and
\* preparation return what they returned, and the run is back at the sidebar.
Rerun ==
    /\ pc \in {"done", "stopped"}
    /\ pc' = "sidebar"
    /\ sel' = NoSelection
    /\ df_filtered' = EmptyFrame
    /\ out' = NoOutput
    /\ shown' = shown \ {NoDataMatches}
    /\ UNCHANGED <<raw_df, geojson, df_main, session>>

Next ==
    \/ LoadApp \/ PrepareData \/ CheckCritical \/ Sidebar \/ FilteringLogic
    \/ EmptyCheck \/ Kpi \/ Map \/ Pyramid \/ TopLic \/ TopImp \/ Rerun

Spec == Init /\ [][Next]_vars

\* The preparation alone, on raw cells of every kind.
NextPrep == LoadRaw \/ PrepareData

SpecPrep == Init /\ [][NextPrep]_vars

\* The builders alone, each handed a filtered table: the filter's output on
\* a cleaned table, for any selection among the model's labels, the empty
\* outputs included.
InitBuilders ==
    /\ pc = "kpi"
    /\ geojson = "geojson"
    /\ out = NoOutput
    /\ shown = {}
    /\ \E raw \in BuilderTables,
          feds \in SUBSET {"Football", "Tennis"},
          gender \in Genders :
        LET ret == clean_and_prep_data(raw)
            ss == [f_cols |-> ret.f_cols, h_cols |-> ret.h_cols]
            s == [feds |-> feds, regions |-> {}, gender |-> gender]
        IN  /\ ret.kind = "tuple"
            /\ raw_df = raw
            /\ df_main = ret.df
            /\ session = ss
            /\ sel = s
            /\ df_filtered = FilterEngine(ret.df, ss, s).filtered

NextBuilders == Kpi \/ Map \/ Pyramid \/ TopLic \/ TopImp

SpecBuilders == InitBuilders /\ [][NextBuilders]_vars

\* The two rankings alone, on tables of up to MaxFeds federations.
InitTop ==
    /\ pc = "top_lic"
    /\ geojson = "geojson"
    /\ out = NoOutput
    /\ shown = {}
    /\ sel = NoSelection
    /\ \E n \in 1..MaxFeds, a \in 1..3, b \in 0..2, rev \in BOOLEAN :
       \E j \in 0..n :
        LET raw == RankingTable(n, a, b, j, rev)
            ret == clean_and_prep_data(raw)
        IN  /\ raw_df = raw
            /\ df_main = ret.df
            /\ session = [f_cols |-> ret.f_cols, h_cols |-> ret.h_cols]
            /\ df_filtered = ret.df

NextTop == TopLic \/ TopImp

SpecTop == InitTop /\ [][NextTop]_vars

---------------------------------------------------------------------------
\* Properties.

\* The positions of the run at which the filtering logic has run.
AfterFilter ==
    {"layout", "stopped", "kpi", "map", "pyramid", "top_lic", "top_imp", "done"}

\* The positions of the run at which df_main holds the cleaned table.
AfterPrep == AfterFilter \cup {"check", "halted", "sidebar", "filter"}

\* The cleaned row a filtered row comes from: its index label k names row
\* k + 1 of df_main.
CleanedRow(label) == df_main.rows[label + 1]

\* The row passes the federation and region selections.
Selected(row) ==
    /\ sel.feds = {} \/ row[FED] \in sel.feds
    /\ sel.regions = {} \/ row[REG] \in sel.regions

\* C1: after the filter step, under Male every row has Female_Licences = 0,
\* every female bracket column 0 and Total_Licences equal to its
\* Male_Licences (the cleaned row's); under Female the same with the sexes
\* exchanged; under All every kept row equals its cleaned row.
C1_GenderModeInvariant ==
    pc \in AfterFilter =>
        \A i \in 1..Len(df_filtered.rows) :
            LET r == df_filtered.rows[i]
                c0 == CleanedRow(df_filtered.index[i])
            IN  /\ sel.gender = "Male" =>
                    /\ r[FEMALE] = 0
                    /\ \A c \in Range(df_filtered.columns) : IsFemaleCol(c) => r[c] = 0
                    /\ r[TOTAL] = r[MALE]
                    /\ r[MALE] = c0[MALE]
                /\ sel.gender = "Female" =>
                    /\ r[MALE] = 0
                    /\ \A c \in Range(df_filtered.columns) : IsMaleCol(c) => r[c] = 0
                    /\ r[TOTAL] = r[FEMALE]
                    /\ r[FEMALE] = c0[FEMALE]
                /\ sel.gender = "All" => r = c0

\* C1's case: Male mode has zeroed a kept row's female counts.
C1_Witness ==
    /\ pc = "layout"
    /\ sel.gender = "Male"
    /\ \E i \in 1..Len(df_filtered.rows) :
        /\ CleanedRow(df_filtered.index[i])[FEMALE] > 0
        /\ CleanedRow(df_filtered.index[i])[TOTAL] # CleanedRow(df_filtered.index[i])[MALE]

\* C2: the filtered table holds exactly the cleaned rows that pass both
\* selections (an empty selection passes every row), each once, in the
\* cleaned table's order, and each kept row carries its cleaned row's labels.
C2_FilteredRowsAreCleanedRows ==
    pc \in AfterFilter =>
        /\ df_filtered.index =
              SelectSeq(df_main.index, LAMBDA k : Selected(CleanedRow(k)))
        /\ Len(df_filtered.rows) = Len(df_filtered.index)
        /\ \A i \in 1..Len(df_filtered.rows) :
              \A c \in {FED, REG, DEP, COM} :
                  df_filtered.rows[i][c] = CleanedRow(df_filtered.index[i])[c]

\* C2's case: both selections are set and keep some rows but not all.
C2_Witness ==
    /\ pc = "layout"
    /\ sel.feds # {}
    /\ sel.regions # {}
    /\ Len(df_filtered.rows) > 0
    /\ Len(df_filtered.rows) < Len(df_main.rows)

\* C3: the filter step applied to its own output, with the same selection,
\* returns that output.
C3_FilterIdempotent ==
    pc \in AfterFilter =>
        FilterEngine(df_filtered, session, sel).filtered = df_filtered

\* C3's case: Female mode has overwritten a kept row's Total_Licences.
C3_Witness ==
    /\ pc = "layout"
    /\ sel.gender = "Female"
    /\ \E i \in 1..Len(df_filtered.rows) :
        /\ df_filtered.rows[i][TOTAL] # CleanedRow(df_filtered.index[i])[TOTAL]
        /\ df_filtered.rows[i][TOTAL] > 0

\* C4: once prepared, df_main is the table the preparation returned,
\* whatever filter runs have happened since.
C4_CleanedTableImmutable ==
    pc \in AfterPrep => df_main = clean_and_prep_data(raw_df).df

\* C4's case: a filter run with both selections empty has written Male
\* figures into the filtered table.
C4_Witness ==
    /\ pc = "layout"
    /\ sel.gender = "Male"
    /\ sel.feds = {}
    /\ sel.regions = {}
    /\ df_filtered # df_main

\* C5: on an empty raw table the preparation returns a 3-tuple and the run
\* goes on to the critical-data check and halts there; no exception ends it.
C5_EmptyInputHalts ==
    (IsEmpty(raw_df) /\ pc \notin {"load", "prep"}) =>
        /\ clean_and_prep_data(raw_df).kind = "tuple"
        /\ pc \in {"check", "halted"}
        /\ pc = "halted" => FailedToLoad \in shown

\* C6: on an empty filtered table the KPI builder returns 0, 0 and 0, and
\* the map builder and the pyramid builder each return a placeholder.
C6_EmptyTablePlaceholders ==
    IsEmpty(df_filtered) =>
        /\ out.kpi.kind # "unset" =>
              /\ out.kpi.total = 0
              /\ out.kpi.associations = 0
              /\ out.kpi.average.num = 0
        /\ out.map.kind # "unset" => out.map.kind = "placeholder"
        /\ out.pyramid.kind # "unset" => out.pyramid.kind = "placeholder"

\* C7: cleaning a non-empty raw table never fails, and leaves a
\* non-negative integer in every bracket column and in Total_Licences.
C7_CountsNonNegative ==
    (~IsEmpty(raw_df) /\ pc \notin {"load", "prep"}) =>
        /\ pc # "crashed"
        /\ \A i \in 1..Len(df_main.rows) :
              \A c \in Range(df_main.columns) :
                  (IsAgeCol(c) \/ c = TOTAL) => df_main.rows[i][c] \in Nat

\* The federations of the filtered table, and each one's two metrics,
\* counted row by row.
FedsPresent == { df_filtered.rows[i][FED] : i \in 1..Len(df_filtered.rows) } \ {NA}

RECURSIVE LicencesFrom(_, _)
LicencesFrom(fed, i) ==
    IF i > Len(df_filtered.rows) THEN 0
    ELSE (IF df_filtered.rows[i][FED] = fed THEN df_filtered.rows[i][TOTAL] ELSE 0)
         + LicencesFrom(fed, i + 1)

Metric(by, fed) ==
    IF by = "licences" THEN LicencesFrom(fed, 1)
    ELSE Cardinality({ i \in 1..Len(df_filtered.rows) : df_filtered.rows[i][FED] = fed })

\* What C8 asks of one ranking.
RankingOK(by, ranking) ==
    LET d == ranking.data
        n == Cardinality(FedsPresent)
        kept == { d[k].key : k \in 1..Len(d) }
    IN  /\ Len(d) = IF n < 15 THEN n ELSE 15
        /\ Cardinality(kept) = Len(d)
        /\ kept \subseteq FedsPresent
        /\ \A k \in 1..Len(d) : d[k].value = Metric(by, d[k].key)
        /\ \A k \in 1..(Len(d) - 1) : d[k].value <= d[k + 1].value
        /\ \A f \in FedsPresent : Metric(by, f) <= d[Len(d)].value
        /\ \A f \in FedsPresent \ kept : Metric(by, f) <= d[1].value

\* C8: each ranking has min(15, federations present) entries, in ascending
\* order of value, each a federation with its metric, the last the largest
\* metric of the table, and no omitted federation above the first.
C8_TopFederations ==
    /\ out.lic.kind # "unset" => RankingOK("licences", out.lic)
    /\ out.imp.kind # "unset" => RankingOK("implantation", out.imp)

\* C8's case: both rankings are built from more than 15 federations, whose
\* metrics differ.
C8_Witness ==
    /\ pc = "done"
    /\ Cardinality(FedsPresent) > 15
    /\ Len(out.lic.data) = 15
    /\ out.lic.data[1].value < out.lic.data[15].value
    /\ out.imp.data[1].value < out.imp.data[15].value

\* C9: the map's summary has one record per department of the filtered
\* rows, with the sum of its rows' Total_Licences and the number of its rows.
C9_DepartmentSummary ==
    out.map.kind # "unset" =>
        LET d == out.map.data
            deps == { df_filtered.rows[i][DEP] : i \in 1..Len(df_filtered.rows) }
            rowsOf(dep) == { i \in 1..Len(df_filtered.rows) : df_filtered.rows[i][DEP] = dep }
        IN  /\ { d[k].departement : k \in 1..Len(d) } = deps
            /\ Len(d) = Cardinality(deps)
            /\ \A k \in 1..Len(d) :
                  /\ d[k].Nb_Associations = Cardinality(rowsOf(d[k].departement))
                  /\ d[k].Total_Licences =
                        SumSeq([i \in 1..Len(df_filtered.rows) |->
                                  IF i \in rowsOf(d[k].departement)
                                  THEN df_filtered.rows[i][TOTAL] ELSE 0])

====
